---- MODULE Spec2Model ----
(***************************************************************************)
(* Model of pytest_telegram/plugin.py: the retry table kept by the pytest  *)
(* hooks (pytest_sessionstart, pytest_runtest_makereport,                  *)
(* pytest_terminal_summary), the formatter that reads it, and the notifier *)
(* that posts the messages to the Telegram HTTP API.                       *)
(*                                                                         *)
(* Strings are sequences of tokens: a node id "a::t2" is                   *)
(* <<"a", "::", "t", "2">>, a log line is a sequence of words, a word is a *)
(* sequence of tokens.  None is -1 wherever the Python value is a number.  *)
(***************************************************************************)
EXTENDS Integers, Sequences, FiniteSets, TLC

VARIABLES
    retry_info,     \* _retry_info: dict in insertion order, <<[name, attempts, final_result]>>
    session_start,  \* _session_start_time is set
    pc,             \* position of the pytest process in the session
    last,           \* the hook call that made the last step
    config,         \* the config handed to pytest_terminal_summary
    stats,          \* terminalreporter.stats as pytest_terminal_summary read it
    formatter,      \* the TestResultsFormatter built by pytest_terminal_summary
    message_id,     \* send_test_results: the sticker's message id
    calls,          \* requests.post calls issued in this session, in order
    seen            \* per identity: the largest attempt numbers the signals carried

vars == <<retry_info, session_start, pc, last, config, stats, formatter,
          message_id, calls, seen>>

----------------------------------------------------------------------------
(* Bounds *)

MaxCount == 3       \* largest retry count an item attribute carries
MaxMarkerArg == 2   \* largest argument of a flaky/retry marker
MaxLines == 2       \* captured output lines read at session end
MaxStats == 2       \* reports in terminalreporter.stats

----------------------------------------------------------------------------
(* Values *)

None == -1

Max(a, b) == IF a >= b THEN a ELSE b

Min(a, b) == IF a <= b THEN a ELSE b

Range(s) == {s[i] : i \in 1..Len(s)}

Truthy(v) == v # None /\ v # 0

NodeA == <<"a", "::", "t">>

NodeB == <<"b", "::", "t", "2">>

Nodeids == {NodeA, NodeB}

\* "sub in s" on strings
Contains(sub, s) ==
    \E i \in 0..(Len(s) - Len(sub)) : SubSeq(s, i + 1, i + Len(sub)) = sub

\* s.split("::")[-1]
LastPart(s) ==
    LET seps == {i \in 1..Len(s) : s[i] = "::"}
        from == IF seps = {} THEN 0 ELSE CHOOSE i \in seps : \A j \in seps : j <= i
    IN  SubSeq(s, from + 1, Len(s))

----------------------------------------------------------------------------
(* The dict _retry_info *)

Keys(d) == {d[i].name : i \in 1..Len(d)}

Index(d, k) == CHOOSE i \in 1..Len(d) : d[i].name = k

Get(d, k) == d[Index(d, k)]

Put(d, k, attempts, result) ==
    IF k \in Keys(d)
    THEN [d EXCEPT ![Index(d, k)] = [name |-> k, attempts |-> attempts, final_result |-> result]]
    ELSE Append(d, [name |-> k, attempts |-> attempts, final_result |-> result])

SetResult(d, k, result) == [d EXCEPT ![Index(d, k)].final_result = result]

----------------------------------------------------------------------------
(* pytest_runtest_makereport *)

Absent == -2    \* hasattr(item, name) is false

AttrNames == <<"_pytest_retry_count", "execution_count", "_retry_count", "retries">>

\* attribute sets of the items the runner reports
AttrChoices ==
    {[n \in Range(AttrNames) |->
        IF n = "execution_count" THEN x ELSE IF n = "retries" THEN y ELSE Absent] :
     x \in {Absent} \cup 0..MaxCount, y \in {Absent, MaxCount}}

NoMarker == [present |-> FALSE, args |-> <<>>]

Marker(args) == [present |-> TRUE, args |-> args]

FlakyChoices == {NoMarker, Marker(<<>>)} \cup {Marker(<<k>>) : k \in 0..MaxMarkerArg}

RetryChoices == {NoMarker, Marker(<<MaxMarkerArg>>)}

Items ==
    {[nodeid |-> n, attrs |-> a, flaky |-> f, retry |-> r] :
     n \in Nodeids, a \in AttrChoices, f \in FlakyChoices, r \in RetryChoices}

\* the items of the sessions that post: no marker, at most one attribute
SendItems ==
    {it \in Items :
        /\ ~it.flaky.present /\ ~it.retry.present /\ it.attrs["retries"] = Absent
        /\ it.attrs["execution_count"] \in {Absent, 1, MaxCount}}

Whens == {"setup", "call", "teardown"}

Outcomes == {"passed", "failed", "skipped"}

\* lines 387-393: the first attribute present wins
RECURSIVE AttrCount(_, _)
AttrCount(item, i) ==
    IF i > Len(AttrNames) THEN None
    ELSE IF item.attrs[AttrNames[i]] # Absent THEN item.attrs[AttrNames[i]]
    ELSE AttrCount(item, i + 1)

\* line 396: item.get_closest_marker('flaky') or item.get_closest_marker('retry')
ClosestMarker(item) == IF item.flaky.present THEN item.flaky ELSE item.retry

\* lines 387-400: the retry count the item carries
RetryCount(item) ==
    LET c == AttrCount(item, 1)
        m == ClosestMarker(item)
    IN  IF m.present /\ ~Truthy(c) /\ m.args # <<>> THEN m.args[1] + 1 ELSE c

\* the phase test dropped
TracksEveryPhase(when) == TRUE

\* line 383
TracksPhase(when) == when = "call"

\* a count of 1 taken for a retry
IsRetriedFromOne(count) == Truthy(count) /\ count >= 1

\* line 403
IsRetried(count) == Truthy(count) /\ count > 1

\* the counts added up
MergeAttemptsSum(old, new) == old + new

\* the latest count kept
MergeAttemptsLatest(old, new) == new

\* lines 411-414
MergeAttempts(old, new) == Max(old, new)

\* lines 403-419
AfterReport(d, item, outcome) ==
    LET k == item.nodeid
        c == RetryCount(item)
        d1 == IF IsRetried(c)
              THEN IF k \notin Keys(d) THEN Put(d, k, c, outcome)
                   ELSE Put(d, k, MergeAttempts(Get(d, k).attempts, c), outcome)
              ELSE d
    IN  IF k \in Keys(d1) THEN SetResult(d1, k, outcome) ELSE d1

\* the attempt numbers seen so far for one identity, by source
SeeDirect(s, k, c) == [s EXCEPT ![k].direct = Max(@, c)]

SeeLog(s, k, n) == [s EXCEPT ![k].log = Max(@, n)]

----------------------------------------------------------------------------
(* Captured output: _parse_terminal_output_for_retries and                 *)
(* _extract_retry_info_from_line                                           *)

Word(tok) == <<tok>>

LineFailedA ==      \* "a::t failed on attempt 1! Retrying!"
    <<NodeA, Word("failed"), Word("on"), Word("attempt"), <<"1", "!">>, <<"Retrying", "!">>>>

LineRetryingB ==    \* "b::t2 retrying attempt 2"
    <<NodeB, Word("retrying"), Word("attempt"), Word("2")>>

LineRerunA ==       \* "a::t rerun attempt 3."
    <<NodeA, Word("rerun"), Word("attempt"), <<"3", ".">>>>

LineTwoNames ==     \* "b::t2 a::t Retrying, Attempt 11 2"
    <<NodeB, NodeA, <<"Retrying", ",">>, Word("Attempt"), <<"1", "1">>, Word("2")>>

LineRetryOf ==      \* "retry 1 of 3"
    <<Word("retry"), Word("1"), Word("of"), Word("3")>>

LineNameAfter ==    \* "rerun attempt 2 a::t"
    <<Word("rerun"), Word("attempt"), Word("2"), NodeA>>

LineNoPattern ==    \* "b::t2 attempt 3"
    <<NodeB, Word("attempt"), Word("3")>>

\* the output lines of the sessions that do not post
LogLines == {LineFailedA, LineRerunA, LineTwoNames, LineNoPattern}

\* the output lines of the sessions that post
SendLines == {LineRetryingB, LineRetryOf, LineNameAfter}

SeqsUpTo(S, n) == UNION {[1..k -> S] : k \in 0..n}

\* the captured output of the sessions that do not post
Outputs == SeqsUpTo(LogLines, MaxLines)

\* the captured output of the sessions that post
SendOutputs == {<<line>> : line \in SendLines} \cup {<<>>}

Lower(tok) ==
    IF tok = "Retrying" THEN "retrying" ELSE IF tok = "Attempt" THEN "attempt" ELSE tok

\* the patterns of lines 482-487 that occur inside one token
Parts(tok) ==
    LET t == Lower(tok)
    IN  IF t = "retrying" THEN {"retrying", "retry"}
        ELSE IF t \in {"attempt", "retry", "of", "rerun"} THEN {t}
        ELSE {}

\* pattern in line.lower()
LineHas(line, pattern) ==
    IF pattern = "failed on attempt"
    THEN \E i \in 1..(Len(line) - 2) :
            /\ Lower(line[i][Len(line[i])]) = "failed"
            /\ line[i + 1] = Word("on")
            /\ Lower(line[i + 2][1]) = "attempt"
    ELSE \E i \in 1..Len(line) : \E j \in 1..Len(line[i]) : pattern \in Parts(line[i][j])

\* lines 482-487
retry_patterns ==
    {<<"retrying", "attempt">>, <<"failed on attempt", "retrying">>, <<"retry", "of">>,
     <<"rerun", "attempt">>}

\* lines 489-490
MatchesPattern(line) == \E p \in retry_patterns : LineHas(line, p[1]) /\ LineHas(line, p[2])

RECURSIVE Strip(_, _)
\* word.strip(c)
Strip(w, c) ==
    IF w = <<>> THEN w
    ELSE IF w[1] = c THEN Strip(Tail(w), c)
    ELSE IF w[Len(w)] = c THEN Strip(SubSeq(w, 1, Len(w) - 1), c)
    ELSE w

Digit(tok) ==
    IF tok = "0" THEN 0 ELSE IF tok = "1" THEN 1 ELSE IF tok = "2" THEN 2
    ELSE IF tok = "3" THEN 3 ELSE None

RECURSIVE Decimal(_)
Decimal(w) == IF w = <<>> THEN 0 ELSE 10 * Decimal(SubSeq(w, 1, Len(w) - 1)) + Digit(w[Len(w)])

\* line 507: int(word.strip('!').strip(',').strip('.')), None for ValueError
IntOf(word) ==
    LET w == Strip(Strip(Strip(word, "!"), ","), ".")
    IN  IF w # <<>> /\ \A i \in 1..Len(w) : Digit(w[i]) # None THEN Decimal(w) ELSE None

\* line 503
HasAttempt(word) == \E j \in 1..Len(word) : Lower(word[j]) = "attempt"

\* line 508
Reasonable(n) == n # None /\ 1 <= n /\ n <= 10

\* lines 505-508, 527: the first reasonable number around words[i]
NumberNear(words, i) ==
    LET window == {j \in Max(1, i - 3)..Min(Len(words), i + 2) : Reasonable(IntOf(words[j]))}
    IN  IF window = {} THEN None
        ELSE IntOf(words[CHOOSE j \in window : \A h \in window : j <= h])

\* lines 510-514: the first word before words[i] that holds "::"
NameBefore(words, i) ==
    LET named == {k \in 1..(i - 1) : "::" \in Range(words[k])}
    IN  IF named = {} THEN <<>>
        ELSE words[CHOOSE k \in named : \A h \in named : k <= h]

RECURSIVE LineSignals(_, _)
\* lines 500-516: the (test name, attempt number) pairs one line yields, in order
LineSignals(words, i) ==
    IF i > Len(words) THEN <<>>
    ELSE IF /\ HasAttempt(words[i])
            /\ NumberNear(words, i) # None
            /\ NameBefore(words, i) # <<>>
         THEN <<[name |-> NameBefore(words, i), n |-> NumberNear(words, i)]>>
              \o LineSignals(words, i + 1)
         ELSE LineSignals(words, i + 1)

RECURSIVE OutputSignals(_)
\* lines 478-492
OutputSignals(lines) ==
    IF lines = <<>> THEN <<>>
    ELSE (IF MatchesPattern(Head(lines)) THEN LineSignals(Head(lines), 1) ELSE <<>>)
         \o OutputSignals(Tail(lines))

\* lines 519, 525: the attempts a log line stands for
LogAttempts(n) == n + 1

\* lines 516-526
ApplySignal(d, sig) ==
    IF sig.name \notin Keys(d)
    THEN Put(d, sig.name, LogAttempts(sig.n), "unknown")
    ELSE Put(d, sig.name, MergeAttempts(Get(d, sig.name).attempts, LogAttempts(sig.n)),
             Get(d, sig.name).final_result)

RECURSIVE ApplySignals(_, _)
ApplySignals(d, sigs) ==
    IF sigs = <<>> THEN d ELSE ApplySignals(ApplySignal(d, Head(sigs)), Tail(sigs))

RECURSIVE SeeSignals(_, _)
SeeSignals(s, sigs) ==
    IF sigs = <<>> THEN s ELSE SeeSignals(SeeLog(s, Head(sigs).name, Head(sigs).n), Tail(sigs))

\* lines 455-492
_parse_terminal_output_for_retries(d, lines) == ApplySignals(d, OutputSignals(lines))

----------------------------------------------------------------------------
(* terminalreporter.stats and _update_retry_final_results *)

Categories == <<"passed", "failed", "error", "skipped">>

\* every stats with at most MaxStats reports
StatsChoices ==
    UNION {UNION {UNION {
        {[passed |-> p, failed |-> f, error |-> e, skipped |-> s] :
            s \in SeqsUpTo(Nodeids, MaxStats - Len(p) - Len(f) - Len(e))} :
        e \in SeqsUpTo(Nodeids, MaxStats - Len(p) - Len(f))} :
        f \in SeqsUpTo(Nodeids, MaxStats - Len(p))} :
        p \in SeqsUpTo(Nodeids, MaxStats)}

RECURSIVE AddResults(_, _, _)
\* lines 540-541 for one result_type
AddResults(tr, reports, result_type) ==
    IF reports = <<>> THEN tr
    ELSE AddResults(Put(tr, Head(reports), 0, result_type), Tail(reports), result_type)

\* lines 537-541: the dict test_results, attempts unused
TestResults(st) ==
    AddResults(AddResults(AddResults(AddResults(<<>>, st.passed, "passed"),
        st.failed, "failed"), st.error, "error"), st.skipped, "skipped")

\* lines 549-553: the first test result whose node id holds the function name
MatchByFunctionName(tr, test_name) ==
    LET hits == {i \in 1..Len(tr) : Contains(LastPart(test_name), tr[i].name)}
    IN  IF hits = {} THEN None ELSE CHOOSE i \in hits : \A h \in hits : i <= h

\* lines 544-553 for one record
FinalResult(tr, rec) ==
    IF rec.name \in Keys(tr) THEN Get(tr, rec.name).final_result
    ELSE LET match == MatchByFunctionName(tr, rec.name)
         IN  IF match # None THEN tr[match].final_result ELSE rec.final_result

\* lines 532-553
_update_retry_final_results(d, st) ==
    LET test_results == TestResults(st)
    IN  [i \in 1..Len(d) |-> [d[i] EXCEPT !.final_result = FinalResult(test_results, d[i])]]

----------------------------------------------------------------------------
(* TelegramConfig and TestResultsFormatter *)

NoStr == "None"

NoCfg == [token |-> NoStr, chat_id |-> NoStr, disable_stickers |-> FALSE, workerinput |-> FALSE]

Configs ==
    [token : {NoStr, "tok"}, chat_id : {NoStr, "42"}, disable_stickers : BOOLEAN,
     workerinput : BOOLEAN]

QuietConfigs == {c \in Configs : c.token = NoStr /\ c.chat_id = NoStr /\ ~c.disable_stickers}

\* the worker test dropped
IsWorkerNever(cfg) == FALSE

\* line 428: hasattr(terminalreporter.config, 'workerinput')
IsWorker(cfg) == cfg.workerinput

StrTruthy(str) == str # NoStr /\ str # ""

\* one credential taken for both
is_configured_either(cfg) == StrTruthy(cfg.token) \/ StrTruthy(cfg.chat_id)

\* lines 28-31
is_configured(cfg) == StrTruthy(cfg.token) /\ StrTruthy(cfg.chat_id)

NoStats == [passed |-> <<>>, failed |-> <<>>, error |-> <<>>, skipped |-> <<>>]

NoFormatter == [built |-> FALSE, stats |-> NoStats, retry_info |-> <<>>]

\* lines 48-56
counts(f) ==
    [passed |-> Len(f.stats.passed), failed |-> Len(f.stats.failed),
     skipped |-> Len(f.stats.skipped), error |-> Len(f.stats.error)]

RECURSIVE ExtraAttempts(_)
\* line 62
ExtraAttempts(d) == IF d = <<>> THEN 0 ELSE (Head(d).attempts - 1) + ExtraAttempts(Tail(d))

\* line 61
RetriedTests(d) == Len(d)

\* lines 58-66
retry_counts(f) ==
    [retried_tests |-> RetriedTests(f.retry_info), total_retries |-> ExtraAttempts(f.retry_info)]

\* lines 68-72
has_failures(f) == counts(f).failed > 0 \/ counts(f).error > 0

\* lines 74-77
has_retries(f) == Len(f.retry_info) > 0

\* lines 79-103: the counts and, if any test was retried, the retry section
format_summary_message(f) ==
    [counts |-> counts(f),
     retry_section |-> IF has_retries(f) THEN <<retry_counts(f)>> ELSE <<>>]

\* lines 171-183
_get_retry_info_for_test(f, nodeid) ==
    LET d == f.retry_info
        hits == {i \in 1..Len(d) : Contains(LastPart(nodeid), d[i].name)}
    IN  IF nodeid \in Keys(d) THEN <<Get(d, nodeid)>>
        ELSE IF hits # {} THEN <<d[CHOOSE i \in hits : \A h \in hits : i <= h]>>
        ELSE <<>>

\* lines 130-135, 139-144: one line of the failed tests message
FailedLine(f, nodeid, label) ==
    LET info == _get_retry_info_for_test(f, nodeid)
    IN  [nodeid |-> nodeid,
         after |-> IF info # <<>> THEN <<label, info[1].attempts>> ELSE <<>>]

\* the error tests left out
FailedDetailsNoErrors(f) ==
    [i \in 1..Len(f.stats.failed) |-> FailedLine(f, f.stats.failed[i], "Failed")]

\* lines 129-144: failed tests first, then error tests
FailedDetails(f) ==
    [i \in 1..Len(f.stats.failed) |-> FailedLine(f, f.stats.failed[i], "Failed")]
    \o [i \in 1..Len(f.stats.error) |-> FailedLine(f, f.stats.error[i], "Error")]

\* lines 118-146: the lines of the message, <<>> for None
format_failed_tests_message(f) ==
    IF f.stats.failed = <<>> /\ f.stats.error = <<>> THEN <<>> ELSE FailedDetails(f)

\* lines 157-162
RetryStatus(final_result) ==
    IF final_result = "passed" THEN "Eventually Passed"
    ELSE IF final_result \in {"failed", "error"} THEN "Still Failed"
    ELSE "Unknown Result"

\* lines 148-169: the entries under the header, <<>> for None
format_retry_details_message(f) ==
    IF ~has_retries(f) THEN <<>>
    ELSE [i \in 1..Len(f.retry_info) |->
            [name |-> f.retry_info[i].name, attempts |-> f.retry_info[i].attempts,
             status |-> RetryStatus(f.retry_info[i].final_result)]]

----------------------------------------------------------------------------
(* TelegramNotifier *)

\* what requests.post meets: a 2xx reply holding the message id in its JSON, a 2xx
\* reply without one, a non-2xx reply, a connection error
Replies ==
    {[status |-> "ok", message_id |-> 7], [status |-> "ok", message_id |-> None],
     [status |-> "http_error", message_id |-> None],
     [status |-> "transport_error", message_id |-> None]}

TextReplies == {r \in Replies : r.message_id = None}

\* only the non-2xx reply caught
_make_request_http_only(reply) ==
    IF reply.status = "ok" THEN "response"
    ELSE IF reply.status = "http_error" THEN "none" ELSE "raise"

\* lines 289-301: "response" hands the reply back, "none" swallows the error,
\* "raise" lets it leave _make_request
_make_request(reply) == IF reply.status = "ok" THEN "response" ELSE "none"

\* line 238
StickerMessageId(reply) == IF _make_request(reply) = "response" THEN reply.message_id ELSE None

\* lines 251-252
ReplyTo(id) == IF Truthy(id) THEN id ELSE None

\* the retry details sent before the failed details
SendOrderRetryFirst == <<"send_sticker", "send_summary", "send_retry", "send_failed">>

\* lines 208-220: the order of the sends
SendOrder == <<"send_sticker", "send_summary", "send_failed", "send_retry">>

\* lines 210, 261, 276: whether a send of send_test_results posts anything
Posts(stage, cfg, f) ==
    IF stage = "send_sticker" THEN ~cfg.disable_stickers
    ELSE IF stage = "send_failed" THEN format_failed_tests_message(f) # <<>>
    ELSE IF stage = "send_retry" THEN format_retry_details_message(f) # <<>>
    ELSE TRUE

\* lines 207-223: the first send after position i that posts
NextStage(i, cfg, f) ==
    LET later == {j \in (i + 1)..Len(SendOrder) : Posts(SendOrder[j], cfg, f)}
    IN  IF later = {} THEN "done" ELSE SendOrder[CHOOSE j \in later : \A h \in later : j <= h]

\* lines 207-223: where send_test_results goes after the request of position i
Continue(reply, i, cfg, f) ==
    IF _make_request(reply) = "raise" THEN "aborted" ELSE NextStage(i, cfg, f)

Post(endpoint, kind, body, reply_to, reply) ==
    [endpoint |-> endpoint, kind |-> kind, body |-> body, reply_to |-> reply_to,
     status |-> reply.status]

pytest_sessionstart ==
    /\ pc \in {"loaded", "done", "aborted"}
    /\ session_start' = TRUE
    /\ retry_info' = <<>>
    /\ pc' = "running"
    /\ last' = [hook |-> "sessionstart", when |-> "-"]
    /\ config' = NoCfg
    /\ stats' = NoStats
    /\ formatter' = NoFormatter
    /\ message_id' = None
    /\ calls' = <<>>
    /\ seen' = [k \in Nodeids |-> [direct |-> 0, log |-> 0]]

pytest_runtest_makereport(items) ==
    /\ pc = "running"
    /\ \E item \in items, when \in Whens, outcome \in Outcomes :
          /\ retry_info' = IF TracksPhase(when)
                           THEN AfterReport(retry_info, item, outcome)
                           ELSE retry_info
          /\ seen' = IF when = "call" /\ RetryCount(item) # None
                     THEN SeeDirect(seen, item.nodeid, RetryCount(item))
                     ELSE seen
          /\ last' = [hook |-> "makereport", when |-> when]
    /\ UNCHANGED <<session_start, pc, config, stats, formatter, message_id, calls>>


\* lines 422-452, up to the first request of send_test_results
pytest_terminal_summary(cfgs, outputs, statses) ==
    /\ pc = "running"
    /\ last' = [hook |-> "terminal_summary", when |-> "-"]
    /\ \E cfg \in cfgs :
          /\ config' = cfg
          /\ IF IsWorker(cfg)
             THEN /\ pc' = "done"
                  /\ UNCHANGED <<retry_info, stats, formatter, seen>>
             ELSE \E lines \in outputs :
                  \E parsed \in {_parse_terminal_output_for_retries(retry_info, lines)} :
                    /\ seen' = SeeSignals(seen, OutputSignals(lines))
                    /\ \E st \in statses :
                          LET final == _update_retry_final_results(parsed, st)
                              f == [built |-> TRUE, stats |-> st, retry_info |-> final]
                          IN  /\ retry_info' = final
                              /\ stats' = st
                              /\ IF ~is_configured(cfg)
                                 THEN pc' = "done" /\ UNCHANGED formatter
                                 ELSE /\ formatter' = f
                                      /\ pc' = NextStage(0, cfg, f)
    /\ UNCHANGED <<session_start, message_id, calls>>

\* lines 210-211, 225-238
_send_sticker ==
    /\ pc = "send_sticker"
    /\ \E reply \in Replies :
          /\ calls' = Append(calls,
                Post("/sendSticker", "sticker",
                     IF has_failures(formatter) THEN "fail_sticker_id" ELSE "success_sticker_id",
                     None, reply))
          /\ message_id' = StickerMessageId(reply)
          /\ pc' = Continue(reply, 1, config, formatter)
    /\ UNCHANGED <<retry_info, session_start, last, config, stats, formatter, seen>>

\* lines 214, 240-256
_send_summary_message ==
    /\ pc = "send_summary"
    /\ \E reply \in TextReplies :
          /\ calls' = Append(calls,
                Post("/sendMessage", "summary", format_summary_message(formatter),
                     ReplyTo(message_id), reply))
          /\ pc' = Continue(reply, 2, config, formatter)
    /\ UNCHANGED <<retry_info, session_start, last, config, stats, formatter, message_id, seen>>

\* lines 217, 258-271
_send_failed_tests_message ==
    /\ pc = "send_failed"
    /\ \E reply \in TextReplies :
          /\ calls' = Append(calls,
                Post("/sendMessage", "failed", format_failed_tests_message(formatter),
                     None, reply))
          /\ pc' = Continue(reply, 3, config, formatter)
    /\ UNCHANGED <<retry_info, session_start, last, config, stats, formatter, message_id, seen>>

\* lines 220, 273-287
_send_retry_details_message ==
    /\ pc = "send_retry"
    /\ \E reply \in TextReplies :
          /\ calls' = Append(calls,
                Post("/sendMessage", "retry", format_retry_details_message(formatter),
                     None, reply))
          /\ pc' = Continue(reply, 4, config, formatter)
    /\ UNCHANGED <<retry_info, session_start, last, config, stats, formatter, message_id, seen>>

Init ==
    /\ retry_info = <<>>
    /\ session_start = FALSE
    /\ pc = "loaded"
    /\ last = [hook |-> "import", when |-> "-"]
    /\ config = NoCfg
    /\ stats = NoStats
    /\ formatter = NoFormatter
    /\ message_id = None
    /\ calls = <<>>
    /\ seen = [k \in Nodeids |-> [direct |-> 0, log |-> 0]]

\* the sessions of a run without Telegram credentials: every item, every output
Next ==
    \/ pytest_sessionstart
    \/ pytest_runtest_makereport(Items)
    \/ pytest_terminal_summary(QuietConfigs, Outputs, StatsChoices)

Spec == Init /\ [][Next]_vars

\* the sessions of any run, with the requests they post
NextSend ==
    \/ pytest_sessionstart
    \/ pytest_runtest_makereport(SendItems)
    \/ pytest_terminal_summary(Configs, SendOutputs, StatsChoices)
    \/ _send_sticker
    \/ _send_summary_message
    \/ _send_failed_tests_message
    \/ _send_retry_details_message

SpecSend == Init /\ [][NextSend]_vars

----------------------------------------------------------------------------
(* Properties *)

Names == Keys(retry_info)

Attempts(k) == Get(retry_info, k).attempts

CallsOf(kind) == {i \in 1..Len(calls) : calls[i].kind = kind}

\* the session is over and its process was not a worker
Reported == pc = "done" /\ last.hook = "terminal_summary" /\ ~config.workerinput

HasCredentials == config.token # NoStr /\ config.chat_id # NoStr

\* C1, as stated: at session end the attempts of every record equal the largest
\* attempt number any signal carried for its identity (retry counts of call
\* reports, numbers parsed from log lines).
C1_AttemptsIsMaxObserved ==
    Reported => \A k \in Names : Attempts(k) = Max(seen[k].direct, seen[k].log)

\* the attempts a log line carrying attempt number n stands for
LogStandsFor(n) == IF n > 0 THEN n + 1 ELSE 0

\* C1, amended: an identity has a record exactly when a call report carried a
\* retry count above 1 or a log line named it, and the attempts of the record
\* are the maximum of those retry counts and of the parsed log numbers plus
\* one; never a sum.
C1_AttemptsIsMaxContributed ==
    \A k \in Nodeids :
        LET most == Max(seen[k].direct, LogStandsFor(seen[k].log))
        IN  /\ k \in Names <=> most > 1
            /\ k \in Names => Attempts(k) = most

\* a record fed by both sources, the report's count above the log's
C1_Witness ==
    /\ Reported
    /\ \E k \in Names :
          /\ seen[k].log > 0
          /\ seen[k].direct > seen[k].log + 1
          /\ Attempts(k) = seen[k].direct
    /\ \E k \in Names : seen[k].direct > 1 /\ seen[k].log + 1 > seen[k].direct

Retried(d) == SelectSeq(d, LAMBDA r : r.attempts > 1)

RECURSIVE SumExtra(_)
SumExtra(d) == IF d = <<>> THEN 0 ELSE Head(d).attempts - 1 + SumExtra(Tail(d))

\* C2: every summary message counts as retried exactly the records with more
\* than one attempt and totals their attempts minus one, shows the retry
\* section only if such a record exists, and neither the summary nor the retry
\* details message counts or lists an identity whose only signal was one
\* attempt.
C2_SingleAttemptNotRetried ==
    /\ \A i \in CallsOf("summary") :
          LET section == calls[i].body.retry_section
          IN  /\ section # <<>> => Retried(retry_info) # <<>>
              /\ section # <<>> =>
                    /\ section[1].retried_tests = Len(Retried(retry_info))
                    /\ section[1].total_retries = SumExtra(Retried(retry_info))
              /\ Retried(retry_info) # <<>> => section # <<>>
    /\ \A i \in CallsOf("retry") :
          /\ Len(calls[i].body) = Len(Retried(retry_info))
          /\ \A j \in 1..Len(calls[i].body) :
                /\ calls[i].body[j].attempts > 1
                /\ \E r \in Range(Retried(retry_info)) :
                      r.name = calls[i].body[j].name /\ r.attempts = calls[i].body[j].attempts
                /\ ~(seen[calls[i].body[j].name].direct <= 1
                     /\ seen[calls[i].body[j].name].log = 0)

\* a session that reported retries while one test had shown a single attempt
C2_Witness ==
    /\ Reported
    /\ CallsOf("summary") # {} /\ CallsOf("retry") # {}
    /\ \E k \in Nodeids : seen[k].direct = 1 /\ seen[k].log = 0 /\ k \notin Names
    /\ \E i \in CallsOf("summary") :
          calls[i].body.retry_section = <<[retried_tests |-> 1, total_retries |-> 2]>>

Ordered(rank) == \A i, j \in 1..Len(calls) : i < j => rank[calls[i].kind] < rank[calls[j].kind]

\* C3, as stated: the sends go sticker, summary, retry details, failed details.
C3_RetryBeforeFailed ==
    Ordered([sticker |-> 1, summary |-> 2, retry |-> 3, failed |-> 4])

\* C3, amended: the sends go sticker, summary, failed details, retry details;
\* no retry details message is posted before the failed details of its session.
C3_FailedBeforeRetry ==
    Ordered([sticker |-> 1, summary |-> 2, failed |-> 3, retry |-> 4])

\* all four sends of one session
C3_Witness ==
    /\ Reported
    /\ Len(calls) = 4
    /\ calls[3].kind = "failed" /\ calls[4].kind = "retry"

\* C4: without a token or without a chat id no request is posted, whatever
\* the stats and the retry table hold.
C4_NoCredentialsNoCall ==
    ~HasCredentials => calls = <<>> /\ pc \notin Range(SendOrder) /\ ~formatter.built

\* a finished session with a chat id, no token, failures and retries
C4_Witness ==
    /\ Reported
    /\ config.token = NoStr /\ config.chat_id # NoStr
    /\ retry_info # <<>>
    /\ stats.failed # <<>>
    /\ calls = <<>>

\* the sends a session with credentials owes
Owed ==
    (IF config.disable_stickers THEN <<>> ELSE <<"sticker">>)
    \o <<"summary">>
    \o (IF stats.failed # <<>> \/ stats.error # <<>> THEN <<"failed">> ELSE <<>>)
    \o (IF retry_info # <<>> THEN <<"retry">> ELSE <<>>)

\* C5: whatever requests fail, send_test_results is never cut short: at its
\* end every send the session owes was attempted, and the summary that follows
\* a failed sticker carries no reply-to id.
C5_FailureDoesNotBlock ==
    /\ pc # "aborted"
    /\ (Reported /\ HasCredentials) => [i \in 1..Len(calls) |-> calls[i].kind] = Owed
    /\ \A i \in CallsOf("summary") :
          (i > 1 /\ calls[i - 1].status # "ok") => calls[i].reply_to = None

\* the sticker and the summary failed, the later sends were attempted
C5_Witness ==
    /\ Reported
    /\ Len(calls) = 4
    /\ calls[1].status = "transport_error"
    /\ calls[2].status = "http_error" /\ calls[2].reply_to = None
    /\ calls[3].status = "transport_error"
    /\ calls[4].kind = "retry"

\* C6: in a worker process pytest_terminal_summary builds no formatter, posts
\* nothing and leaves the retry table as it was.
C6_WorkerDoesNothing ==
    [][(pc = "running" /\ last'.hook = "terminal_summary" /\ config'.workerinput) =>
            /\ retry_info' = retry_info
            /\ calls' = <<>>
            /\ ~formatter'.built
            /\ pc' = "done"]_vars

\* a worker's session ended with retries in its table
C6_Witness ==
    /\ pc = "done" /\ last.hook = "terminal_summary" /\ config.workerinput
    /\ HasCredentials
    /\ retry_info # <<>>
    /\ calls = <<>>

FailedCount == Len(stats.failed) + Len(stats.error)

\* the lines of a failed details message that describe a test, and the others
TestLines(body) == SelectSeq(body, LAMBDA line : line.nodeid \in Nodeids)

MarkerLines(body) == SelectSeq(body, LAMBDA line : line.nodeid \notin Nodeids)

OwnResults(k, before, st) ==
    LET own == {c \in Range(Categories) : k \in Range(st[c])}
    IN  IF own # {} THEN own
        ELSE IF k \in Keys(before) THEN {Get(before, k).final_result}
        ELSE {"unknown"}

\* C8: when the table is read for reporting, the final_result of every record
\* is a result of that record's own identity.
C8_OwnFinalResult ==
    [][(pc = "running" /\ last'.hook = "terminal_summary" /\ ~config'.workerinput) =>
            \A i \in 1..Len(retry_info') :
                retry_info'[i].final_result
                    \in OwnResults(retry_info'[i].name, retry_info, stats')]_vars

\* C9: within a session no record leaves the table and no record's attempts
\* decrease.
C9_AttemptsNeverDecrease ==
    [][pc' # "running" \/ pc = "running" =>
            \A k \in Names :
                /\ k \in Keys(retry_info')
                /\ Get(retry_info', k).attempts >= Attempts(k)]_vars

\* a record made by a call report and raised by a log line
C9_Witness ==
    /\ Reported
    /\ \E k \in Names :
          /\ seen[k].direct > 1
          /\ seen[k].log + 1 > seen[k].direct
          /\ Attempts(k) = seen[k].log + 1

\* C10: a report of the setup or teardown phase leaves the retry table as it
\* was.
C10_OtherPhasesIgnored ==
    [][(last'.hook = "makereport" /\ last'.when # "call") => retry_info' = retry_info]_vars

\* a teardown report met a table with records
C10_Witness ==
    /\ last.hook = "makereport" /\ last.when = "teardown"
    /\ retry_info # <<>>
    /\ pc = "running"

\* C11: in the failed details every line that carries an "after N attempts"
\* annotation belongs to a test identity that has a record in the retry table,
\* and N is the attempts of that record; a test without a record is never
\* annotated.
C11_AnnotationIsOwnRecord ==
    \A i \in CallsOf("failed") : \A j \in 1..Len(calls[i].body) :
        LET line == calls[i].body[j]
        IN  line.after # <<>> =>
                /\ line.nodeid \in Names
                /\ line.after[2] = Attempts(line.nodeid)

====
